---- MODULE Spec2Model ----
(***************************************************************************)
(* Model of imgui-filedialog-rs: the safe binding over the native          *)
(* ImGuiFileDialog C API (src/src/lib.rs), its Selection snapshot          *)
(* (src/src/selection.rs), the string helpers (src/src/util.rs) and the    *)
(* two flag types (src/src/flags.rs).                                      *)
(*                                                                         *)
(* Three specifications share the module:                                  *)
(*   Spec      the FileDialog facade driving one native dialog engine      *)
(*   SpecSel   the Selection snapshot's pure readers over a native table   *)
(*   SpecFlags the flag set algebra over the backing integer               *)
(* The native engine behind the sys:: calls is not part of src/; its       *)
(* operators (named IGFD_...) follow the specification's sections 4.2      *)
(* and 6.                                                                  *)
(***************************************************************************)
EXTENDS Integers, Sequences, FiniteSets, TLC

VARIABLES
    fd,          \* the FileDialog value: "none", "alive", "dropped", "aborted"
    id,          \* FileDialog.id (lib.rs:85)
    ptr,         \* Context.ptr (lib.rs:21): NULL or a handle
    nHandle,     \* native handle object: "free", "live", "destroyed"
    nShow,       \* native dialog state: "Closed", "Opened", "Open"
    nKey,        \* key of the native dialog session
    nIsOk,       \* native ok flag
    nStyles,     \* number of registered style rules
    lastTerminal,\* history: the most recent terminal user action
    destroyCalls,\* history: number of IGFD_Destroy calls
    misuse,      \* history: a native call received a handle that was not live
    selLive,     \* number of Selection snapshots alive
    lastOp,      \* the facade operation performed last
    lastRet,     \* what it returned
    lastNul,     \* whether one of its string arguments held a NUL byte
    lastCalls,   \* the native calls it made, in order
    lastArgs,    \* the window flags and sizes display was called with
    heap,        \* native buffers handed to the binding: "none", "live", "freed"
    heapFault,   \* history: a buffer was read or freed while not live
    selTable,    \* SpecSel: the native IGFD_Selection table
    selOp,       \* SpecSel: the reader applied last
    selRet,      \* SpecSel: its result
    fTy,         \* SpecFlags: the flag type
    fA,          \* SpecFlags: left operand
    fB,          \* SpecFlags: right operand
    fOp,         \* SpecFlags: the operation applied last
    fRet         \* SpecFlags: its result

dlgVars == <<fd, id, ptr, nHandle, nShow, nKey, nIsOk, nStyles, lastTerminal,
             destroyCalls, misuse, selLive, lastOp, lastRet, lastNul, lastCalls,
             lastArgs, heap, heapFault>>
selVars == <<selTable, selOp, selRet>>
flagVars == <<fTy, fA, fB, fOp, fRet>>
vars == <<dlgVars, selVars, flagVars>>

(***************************************************************************)
(* Bounds                                                                  *)
(***************************************************************************)
MaxStyles == 2
MaxSel == 1
MaxCount == 3
MaxDim == 1

(***************************************************************************)
(* Values                                                                  *)
(***************************************************************************)
NULL == 0
Handle == 1
Ids == {"dlgA", "dlgB"}
NoKey == "-"

\* byte strings handed to the facade; 0 is the NUL byte
ArgStrings == {<<65>>, <<65, 0, 66>>}
NoneArg == <<-1>>
OptArgStrings == ArgStrings \cup {NoneArg}

\* window flags and size bounds handed to display: a proper range, a range
\* that is degenerate on both axes, and one that is degenerate on one axis
Vec2(x, y) == [x |-> x, y |-> y]
DisplayArgs ==
    {[flags |-> {}, min |-> Vec2(200, 300), max |-> Vec2(700, 500)],
     [flags |-> {"NO_COLLAPSE"}, min |-> Vec2(200, 300), max |-> Vec2(200, 100)],
     [flags |-> {"NO_RESIZE"}, min |-> Vec2(200, 300), max |-> Vec2(100, 500)]}

Call(fn, h, key, args) == [fn |-> fn, h |-> h, key |-> key, args |-> args]

(***************************************************************************)
(* std::ffi::CString::new: Err(NulError) when the bytes hold a 0           *)
(***************************************************************************)
HasNul(s) == \E i \in 1..Len(s) : s[i] = 0

\* CString::new(s).unwrap(): the value, or a panic carrying the NulError
CString_new_unwrap(s) == IF HasNul(s) THEN "panic" ELSE "ok"

\* Option::map(|f| CString::new(f).unwrap()): None is passed through
Opt_CString_new_unwrap(o) == IF o = NoneArg THEN "ok" ELSE CString_new_unwrap(o)

BoolStr(b) == IF b THEN "true" ELSE "false"
NoHandle == -1
NoArgs == <<>>

(***************************************************************************)
(* The idle values of the other two specifications                         *)
(***************************************************************************)
\* native buffers: the string a getter returns, and one content block
\* (table and strings) for each Selection that can be alive
StrBuf == 0
Buffers == {StrBuf} \cup (1..MaxSel)
Ev(op, buf) == [op |-> op, buf |-> buf]

\* the heap after one event, and whether the event touched a dead buffer
HeapStep(s, ev) ==
    IF ev.op = "alloc"
    THEN [heap |-> [s.heap EXCEPT ![ev.buf] = "live"], fault |-> s.fault]
    ELSE IF ev.op = "read"
    THEN [heap |-> s.heap, fault |-> s.fault \/ s.heap[ev.buf] # "live"]
    ELSE [heap |-> [s.heap EXCEPT ![ev.buf] = "freed"],
          fault |-> s.fault \/ s.heap[ev.buf] # "live"]

RECURSIVE HeapRun(_, _)
HeapRun(s, evs) ==
    IF evs = <<>> THEN s ELSE HeapRun(HeapStep(s, Head(evs)), Tail(evs))

SelIdle == selTable = <<>> /\ selOp = "none" /\ selRet = <<>>
FlagsIdle == fTy = "none" /\ fA = {} /\ fB = {} /\ fOp = "none" /\ fRet = {}
DlgIdle ==
    /\ fd = "none" /\ id = NoKey /\ ptr = NULL /\ nHandle = "free"
    /\ nShow = "Closed" /\ nKey = NoKey /\ nIsOk = FALSE /\ nStyles = 0
    /\ lastTerminal = "none" /\ destroyCalls = 0 /\ misuse = FALSE
    /\ selLive = 0 /\ lastOp = "none" /\ lastRet = "none" /\ lastNul = FALSE
    /\ lastCalls = <<>> /\ lastArgs = NoArgs
    /\ heap = [b \in Buffers |-> "none"] /\ heapFault = FALSE


(***************************************************************************)
(* The native dialog engine (external; written from spec sections 4.2, 6)  *)
(***************************************************************************)
\* create-context: a fresh handle, or the fatal allocation failure
IGFD_Create_outcomes == {"handle", "alloc_failure"}

IGFD_Destroy(h) ==
    /\ nHandle' = (IF h = Handle /\ nHandle = "live" THEN "destroyed" ELSE nHandle)
    /\ destroyCalls' = destroyCalls + 1

\* open-dialog: Closed -> Opened(this frame) for the given key
IGFD_OpenDialog(h, key) ==
    /\ nShow' = (IF nShow = "Closed" THEN "Opened" ELSE nShow)
    /\ nKey' = (IF nShow = "Closed" THEN key ELSE nKey)
    /\ UNCHANGED <<nIsOk, lastTerminal, nStyles>>

\* what the user may do in a frame: the buttons are live once the dialog is open
UserInputs == IF nShow = "Open" THEN {"none", "ok", "cancel"} ELSE {"none"}

\* display-dialog: whether a terminal user action occurred this frame
IGFD_DisplayDialog_ret(h, key, user) ==
    nShow = "Open" /\ nKey = key /\ user \in {"ok", "cancel"}

IGFD_DisplayDialog(h, key, user) ==
    /\ nShow' = (CASE nShow = "Opened" /\ nKey = key -> "Open"
                  [] IGFD_DisplayDialog_ret(h, key, user) -> "Closed"
                  [] OTHER -> nShow)
    /\ nIsOk' = (IF IGFD_DisplayDialog_ret(h, key, user) THEN user = "ok" ELSE nIsOk)
    /\ lastTerminal' = (IF IGFD_DisplayDialog_ret(h, key, user) THEN user
                         ELSE lastTerminal)
    /\ UNCHANGED <<nKey, nStyles>>

\* close-dialog: ends the current session
IGFD_CloseDialog(h) ==
    /\ nShow' = "Closed"
    /\ UNCHANGED <<nKey, nIsOk, lastTerminal, nStyles>>

IGFD_IsOk(h) == nIsOk
IGFD_WasOpenedThisFrame(h) == nShow = "Opened"
IGFD_WasKeyOpenedThisFrame(h, key) == nShow = "Opened" /\ nKey = key
IGFD_IsOpened(h) == nShow \in {"Opened", "Open"}
IGFD_IsKeyOpened(h, key) == nShow \in {"Opened", "Open"} /\ nKey = key

\* set-file-style: rules accumulate until cleared
IGFD_SetFileStyle2(h) ==
    /\ nStyles' = nStyles + 1
    /\ UNCHANGED <<nShow, nKey, nIsOk, lastTerminal>>

IGFD_ClearFilesStyle(h) ==
    /\ nStyles' = 0
    /\ UNCHANGED <<nShow, nKey, nIsOk, lastTerminal>>

engineVars == <<nShow, nKey, nIsOk, lastTerminal, nStyles>>

\* every native call that takes the context handle dereferences it
Deref(h) == misuse' = (misuse \/ h = NULL \/ nHandle # "live")

(***************************************************************************)
(* Context and FileDialog (src/src/lib.rs)                                 *)
(***************************************************************************)
Finish(op, ret, nul, calls, args, evs) ==
    /\ lastOp' = op /\ lastRet' = ret /\ lastNul' = nul /\ lastCalls' = calls
    /\ lastArgs' = args
    /\ LET s == HeapRun([heap |-> heap, fault |-> heapFault], evs)
       IN  heap' = s.heap /\ heapFault' = s.fault
    /\ UNCHANGED <<selVars, flagVars>>

Returned(op, ret, nul, calls, args) == Finish(op, ret, nul, calls, args, <<>>)

Done(op, ret, nul, calls) == Returned(op, ret, nul, calls, NoArgs)

\* Context::new: stores what IGFD_Create returned
Context_new(o) ==
    /\ ptr' = (IF o = "handle" THEN Handle ELSE ptr)
    /\ nHandle' = (IF o = "handle" THEN "live" ELSE nHandle)

\* a Context without its Drop impl: the handle is leaked
Context_drop_leak ==
    /\ UNCHANGED <<misuse, nHandle, destroyCalls>>
    /\ lastCalls' = <<>>

\* impl Drop for Context: one IGFD_Destroy(self.ptr)
Context_drop ==
    /\ Deref(ptr)
    /\ IGFD_Destroy(ptr)
    /\ lastCalls' = <<Call("IGFD_Destroy", ptr, NoKey, NoArgs)>>

FileDialog_create ==
    /\ fd = "none"
    /\ \E i \in Ids, o \in IGFD_Create_outcomes :
          /\ Context_new(o)
          /\ fd' = (IF o = "handle" THEN "alive" ELSE "aborted")
          /\ id' = (IF o = "handle" THEN i ELSE id)
          /\ Done("create", IF o = "handle" THEN "dialog" ELSE "abort", FALSE,
                  <<Call("IGFD_Create", NoHandle, NoKey, NoArgs)>>)
    /\ UNCHANGED <<engineVars, destroyCalls, misuse, selLive>>

\* dropping the FileDialog drops its Context; a Selection borrows the Context
FileDialog_drop ==
    /\ fd = "alive" /\ selLive = 0
    /\ Context_drop
    /\ fd' = "dropped"
    /\ lastOp' = "drop" /\ lastRet' = "unit" /\ lastNul' = FALSE
    /\ lastArgs' = NoArgs
    /\ UNCHANGED <<id, ptr, engineVars, selLive, heap, heapFault, selVars, flagVars>>

\* the five CString::new(..).unwrap() of open, before the unsafe block
open_cstrings(title, filters, path, file_name, file_path_name) ==
    IF /\ CString_new_unwrap(title) = "ok"
       /\ Opt_CString_new_unwrap(filters) = "ok"
       /\ CString_new_unwrap(path) = "ok"
       /\ CString_new_unwrap(file_name) = "ok"
       /\ CString_new_unwrap(file_path_name) = "ok"
    THEN "ok" ELSE "panic"

FileDialog_open ==
    /\ fd = "alive"
    /\ \E title, path, file_name, file_path_name \in ArgStrings,
          filters \in OptArgStrings :
          LET nul == \/ HasNul(title) \/ HasNul(path) \/ HasNul(file_name)
                     \/ HasNul(file_path_name)
                     \/ (filters # NoneArg /\ HasNul(filters))
          IN  IF open_cstrings(title, filters, path, file_name, file_path_name) = "panic"
              THEN /\ Done("open", "panic", nul, <<>>)
                   /\ UNCHANGED <<engineVars, misuse>>
              ELSE /\ Deref(ptr)
                   /\ IGFD_OpenDialog(ptr, id)
                   /\ Done("open", "unit", nul,
                           <<Call("IGFD_OpenDialog", ptr, id, NoArgs)>>)
    /\ UNCHANGED <<fd, id, ptr, nHandle, destroyCalls, selLive>>

\* an f32 is a number or NaN; every comparison with NaN is false
NaN == -1
f32_le(a, b) == a # NaN /\ b # NaN /\ a <= b

Max2(a, b) == IF a >= b THEN a ELSE b

\* f32::max: the other operand when one is NaN
f32_max(a, b) == IF a = NaN THEN b ELSE IF b = NaN THEN a ELSE Max2(a, b)

\* the sizes display is tried with: every pair over a few lengths and NaN
Dims == (0..MaxDim) \cup {NaN}
Sizes == [x : Dims, y : Dims]
WindowFlagNames == {"NO_COLLAPSE", "NO_RESIZE"}

\* a display that adds NO_RESIZE as soon as one axis is degenerate
display_flags_either_axis(flags, min_size, max_size) ==
    IF f32_le(max_size.x, min_size.x) \/ f32_le(max_size.y, min_size.y)
    THEN flags \cup {"NO_RESIZE"} ELSE flags

\* display: NO_RESIZE when max is not larger than min on both axes
display_flags(flags, min_size, max_size) ==
    IF f32_le(max_size.x, min_size.x) /\ f32_le(max_size.y, min_size.y)
    THEN flags \cup {"NO_RESIZE"} ELSE flags

\* display: ensure max size isn't smaller than min size
display_max_size(min_size, max_size) ==
    [x |-> f32_max(max_size.x, min_size.x), y |-> f32_max(max_size.y, min_size.y)]

\* display: the key handed to IGFD_DisplayDialog
display_key == id

\* display answering "still running" where the native call answers "finished"
display_ret_negated(native) == ~native

\* display: the value of the unsafe block is the native result
display_ret(native) == native

display(flags, min_size, max_size, op) ==
    /\ fd = "alive"
    /\ \E user \in UserInputs :
          /\ Deref(ptr)
          /\ IGFD_DisplayDialog(ptr, display_key, user)
          /\ Returned(op,
                  BoolStr(display_ret(IGFD_DisplayDialog_ret(ptr, display_key, user))),
                  FALSE,
                  <<Call("IGFD_DisplayDialog", ptr, display_key,
                         [flags |-> display_flags(flags, min_size, max_size),
                          min |-> min_size,
                          max |-> display_max_size(min_size, max_size)])>>,
                  [flags |-> flags, min |-> min_size, max |-> max_size])
    /\ UNCHANGED <<fd, id, ptr, nHandle, destroyCalls, selLive>>

FileDialog_display ==
    \E a \in DisplayArgs : display(a.flags, a.min, a.max, "display")

\* display with any window flags and any sizes
FileDialog_display_any ==
    \E flags \in SUBSET WindowFlagNames, min_size, max_size \in Sizes :
        display(flags, min_size, max_size, "display")

FileDialog_display_simple ==
    display({"NO_COLLAPSE"}, Vec2(200, 300), Vec2(700, 500),
            "display_simple")

FileDialog_close ==
    /\ fd = "alive"
    /\ Deref(ptr)
    /\ IGFD_CloseDialog(ptr)
    /\ Done("close", "unit", FALSE, <<Call("IGFD_CloseDialog", ptr, NoKey, NoArgs)>>)
    /\ UNCHANGED <<fd, id, ptr, nHandle, destroyCalls, selLive>>

\* a getter that only reads native state through the handle
Query(op, ret, fn, key) ==
    /\ fd = "alive"
    /\ Deref(ptr)
    /\ Done(op, BoolStr(ret), FALSE, <<Call(fn, ptr, key, NoArgs)>>)
    /\ UNCHANGED <<fd, id, ptr, nHandle, engineVars, destroyCalls, selLive>>

\* is_ok and was_opened_this_frame forwarding to the neighbouring native getter
is_ok_as_is_opened == IGFD_IsOpened(ptr)
was_opened_this_frame_as_is_opened == IGFD_IsOpened(ptr)

is_ok == IGFD_IsOk(ptr)
was_opened_this_frame == IGFD_WasOpenedThisFrame(ptr)
was_key_opened_this_frame == IGFD_WasKeyOpenedThisFrame(ptr, id)
is_opened == IGFD_IsOpened(ptr)
is_key_opened == IGFD_IsKeyOpened(ptr, id)

FileDialog_is_ok == Query("is_ok", is_ok, "IGFD_IsOk", NoKey)
FileDialog_was_opened_this_frame ==
    Query("was_opened_this_frame", was_opened_this_frame,
          "IGFD_WasOpenedThisFrame", NoKey)
FileDialog_was_key_opened_this_frame ==
    Query("was_key_opened_this_frame", was_key_opened_this_frame,
          "IGFD_WasKeyOpenedThisFrame", id)
FileDialog_is_opened == Query("is_opened", is_opened, "IGFD_IsOpened", NoKey)
FileDialog_is_key_opened ==
    Query("is_key_opened", is_key_opened, "IGFD_IsKeyOpened", id)

\* util::ptr_into_string: "" for null, else copy and igMemFree
ptr_into_string_calls(p) ==
    IF p = NULL THEN <<>> ELSE <<Call("igMemFree", NoHandle, NoKey, NoArgs)>>

\* current_path, current_filename, current_file_path_name, current_filter
StringGetters == {[op |-> "current_path", fn |-> "IGFD_GetCurrentPath"],
                  [op |-> "current_filename", fn |-> "IGFD_GetCurrentFileName"],
                  [op |-> "current_file_path_name", fn |-> "IGFD_GetFilePathName"],
                  [op |-> "current_filter", fn |-> "IGFD_GetCurrentFilter"]}

\* a ptr_into_string that copies and never frees
ptr_into_string_no_free(p) ==
    IF p = NULL THEN <<>> ELSE <<Ev("read", StrBuf)>>

\* util::ptr_into_string on the heap: nothing for null, else read, then free
ptr_into_string(p) ==
    IF p = NULL THEN <<>> ELSE <<Ev("read", StrBuf), Ev("free", StrBuf)>>

\* util::ptr_clone_to_string on the heap: nothing for null, else read only
ptr_clone_to_string_reads(p, buf) ==
    IF p = NULL THEN <<>> ELSE <<Ev("read", buf)>>

\* the native getter hands over a fresh buffer, or null
IGFD_GetString_alloc(p) ==
    IF p = NULL THEN <<>> ELSE <<Ev("alloc", StrBuf)>>

FileDialog_current_string ==
    /\ fd = "alive"
    /\ \E g \in StringGetters, p \in {NULL, Handle} :
          /\ Deref(ptr)
          /\ Finish(g.op, IF p = NULL THEN "empty" ELSE "string", FALSE,
                    <<Call(g.fn, ptr, NoKey, NoArgs)>> \o ptr_into_string_calls(p),
                    NoArgs,
                    IGFD_GetString_alloc(p) \o ptr_into_string(p))
    /\ UNCHANGED <<fd, id, ptr, nHandle, engineVars, destroyCalls, selLive>>

\* selection: a snapshot borrowing the Context
FileDialog_selection ==
    /\ fd = "alive" /\ selLive < MaxSel
    /\ Deref(ptr)
    /\ selLive' = selLive + 1
    /\ Finish("selection", "selection", FALSE,
              <<Call("IGFD_GetSelection", ptr, NoKey, NoArgs)>>,
              NoArgs, <<Ev("alloc", selLive + 1)>>)
    /\ UNCHANGED <<fd, id, ptr, nHandle, engineVars, destroyCalls>>

\* files() and files_map() on a live Selection: each table string is copied
\* with ptr_clone_to_string (file_name, file_path_name of an entry)
SelectionReaders == {"files", "files_map"}
Selection_read ==
    /\ selLive > 0
    /\ \E op \in SelectionReaders, sel \in 1..selLive, p \in {NULL, Handle} :
          Finish(op, "strings", FALSE, <<>>, NoArgs,
                 ptr_clone_to_string_reads(p, sel) \o
                 ptr_clone_to_string_reads(Handle, sel))
    /\ UNCHANGED <<fd, id, ptr, nHandle, engineVars, destroyCalls, misuse, selLive>>

\* impl Drop for Selection
Selection_drop ==
    /\ selLive > 0
    /\ selLive' = selLive - 1
    /\ Finish("selection_drop", "unit", FALSE,
              <<Call("IGFD_Selection_DestroyContent", NoHandle, NoKey, NoArgs)>>,
              NoArgs, <<Ev("free", selLive)>>)
    /\ UNCHANGED <<fd, id, ptr, nHandle, engineVars, destroyCalls, misuse>>

\* the two CString::new(..).unwrap() of set_file_style
set_file_style_cstrings(criteria, icon) ==
    IF CString_new_unwrap(criteria) = "ok" /\ Opt_CString_new_unwrap(icon) = "ok"
    THEN "ok" ELSE "panic"

FileDialog_set_file_style ==
    /\ fd = "alive" /\ nStyles < MaxStyles
    /\ \E criteria \in ArgStrings, icon \in OptArgStrings :
          LET nul == HasNul(criteria) \/ (icon # NoneArg /\ HasNul(icon))
          IN  IF set_file_style_cstrings(criteria, icon) = "panic"
              THEN /\ Done("set_file_style", "panic", nul, <<>>)
                   /\ UNCHANGED <<engineVars, misuse>>
              ELSE /\ Deref(ptr)
                   /\ IGFD_SetFileStyle2(ptr)
                   /\ Done("set_file_style", "unit", nul,
                           <<Call("IGFD_SetFileStyle2", ptr, NoKey, NoArgs)>>)
    /\ UNCHANGED <<fd, id, ptr, nHandle, destroyCalls, selLive>>

FileDialog_clear_file_styles ==
    /\ fd = "alive"
    /\ Deref(ptr)
    /\ IGFD_ClearFilesStyle(ptr)
    /\ Done("clear_file_styles", "unit", FALSE,
            <<Call("IGFD_ClearFilesStyle", ptr, NoKey, NoArgs)>>)
    /\ UNCHANGED <<fd, id, ptr, nHandle, destroyCalls, selLive>>

\* the two CString::new(..).unwrap() of set_locales
set_locales_cstrings(begin_locale, end_locale) ==
    IF CString_new_unwrap(begin_locale) = "ok" /\ CString_new_unwrap(end_locale) = "ok"
    THEN "ok" ELSE "panic"

FileDialog_set_locales ==
    /\ fd = "alive"
    /\ \E begin_locale, end_locale \in ArgStrings :
          LET nul == HasNul(begin_locale) \/ HasNul(end_locale)
          IN  IF set_locales_cstrings(begin_locale, end_locale) = "panic"
              THEN /\ Done("set_locales", "panic", nul, <<>>)
                   /\ UNCHANGED misuse
              ELSE /\ Deref(ptr)
                   /\ Done("set_locales", "unit", nul,
                           <<Call("SetLocales", ptr, NoKey, NoArgs)>>)
    /\ UNCHANGED <<fd, id, ptr, nHandle, engineVars, destroyCalls, selLive>>

Init == DlgIdle /\ SelIdle /\ FlagsIdle

Next ==
    \/ FileDialog_create
    \/ FileDialog_drop
    \/ FileDialog_open
    \/ FileDialog_display
    \/ FileDialog_display_simple
    \/ FileDialog_close
    \/ FileDialog_is_ok
    \/ FileDialog_was_opened_this_frame
    \/ FileDialog_was_key_opened_this_frame
    \/ FileDialog_is_opened
    \/ FileDialog_is_key_opened
    \/ FileDialog_current_string
    \/ FileDialog_selection
    \/ Selection_read
    \/ Selection_drop
    \/ FileDialog_set_file_style
    \/ FileDialog_clear_file_styles
    \/ FileDialog_set_locales

Spec == Init /\ [][Next]_vars

\* the display calls alone, on a freshly created dialog, over all Sizes
NextDisplay ==
    \/ FileDialog_create
    \/ FileDialog_display_any
    \/ FileDialog_display_simple

SpecDisplay == Init /\ [][NextDisplay]_vars

(***************************************************************************)
(* Selection (src/src/selection.rs) and the string helpers (util.rs)       *)
(***************************************************************************)
\* a native char pointer: null, or a NUL-terminated byte string
NullStr == [null |-> TRUE, bytes |-> <<>>]
CStr(b) == [null |-> FALSE, bytes |-> b]

\* bytes below 128 are ASCII; InvalidByte never occurs in well-formed UTF-8
InvalidByte == 255
ReplacementChar == 65533

\* the strings a native table entry may hold
TableStrings == {NullStr, CStr(<<>>), CStr(<<97>>), CStr(<<InvalidByte>>)}
TableEntries == [fileName : TableStrings, filePathName : TableStrings]

RECURSIVE SeqsUpTo(_, _)
SeqsUpTo(S, n) ==
    IF n = 0 THEN {<<>>}
    ELSE LET shorter == SeqsUpTo(S, n - 1)
         IN  shorter \cup {Append(t, e) : t \in {u \in shorter : Len(u) = n - 1}, e \in S}

\* String::from_utf8_lossy: an invalid byte becomes U+FFFD
to_string_lossy(b) ==
    [i \in 1..Len(b) |-> IF b[i] = InvalidByte THEN ReplacementChar ELSE b[i]]

\* util::ptr_clone_to_string: "" for null, else a lossy copy (nothing is freed)
ptr_clone_to_string(p) == IF p.null THEN <<>> ELSE to_string_lossy(p.bytes)

\* self.ptr.count and self.ptr.table.offset(i)
Selection_ptr_count == Len(selTable)
Selection_ptr_table(i) == selTable[i + 1]

\* files(): push in the order met
Vec_push(ret, file_path) == Append(ret, file_path)

\* files() without its emptiness test
files_keeps_all(file_path) == TRUE

\* files(): the test that keeps an entry
files_keeps(file_path) == file_path # <<>>

RECURSIVE files_loop(_, _)
files_loop(i, ret) ==
    IF i >= Selection_ptr_count THEN ret
    ELSE LET file_path == ptr_clone_to_string(Selection_ptr_table(i).filePathName)
         IN  files_loop(i + 1, IF files_keeps(file_path) THEN Vec_push(ret, file_path)
                                ELSE ret)

files == files_loop(0, <<>>)

\* an insert that keeps the value already stored under the key
HashMap_insert_keep_first(map, k, v) ==
    [x \in DOMAIN map \cup {k} |-> IF x \in DOMAIN map THEN map[x] ELSE v]

\* HashMap::insert: the new value replaces the one stored under the key
HashMap_insert(map, k, v) ==
    [x \in DOMAIN map \cup {k} |-> IF x = k THEN v ELSE map[x]]

EmptyMap == [x \in {} |-> <<>>]

\* a files_map() that tests the path alone, as files() does
files_map_keeps_path_only(filename, file_path) == file_path # <<>>

\* files_map(): the test that keeps an entry
files_map_keeps(filename, file_path) == filename # <<>> /\ file_path # <<>>

RECURSIVE files_map_loop(_, _)
files_map_loop(i, map) ==
    IF i >= Selection_ptr_count THEN map
    ELSE LET filename == ptr_clone_to_string(Selection_ptr_table(i).fileName)
             file_path == ptr_clone_to_string(Selection_ptr_table(i).filePathName)
         IN  files_map_loop(i + 1, IF files_map_keeps(filename, file_path)
                                    THEN HashMap_insert(map, filename, file_path)
                                    ELSE map)

files_map == files_map_loop(0, EmptyMap)

count == Selection_ptr_count

\* an is_empty that asks files() instead of the count
is_empty_of_files == Len(files) = 0

is_empty == Selection_ptr_count = 0

SelDone(op, ret) ==
    /\ selOp' = op /\ selRet' = ret
    /\ UNCHANGED <<selTable, dlgVars, flagVars>>

Selection_files == SelDone("files", files)
Selection_files_map == SelDone("files_map", files_map)
Selection_count == SelDone("count", count)
Selection_is_empty == SelDone("is_empty", is_empty)

InitSel ==
    /\ selTable \in SeqsUpTo(TableEntries, MaxCount)
    /\ selOp = "none" /\ selRet = <<>>
    /\ DlgIdle /\ FlagsIdle

NextSel ==
    \/ Selection_files
    \/ Selection_files_map
    \/ Selection_count
    \/ Selection_is_empty

SpecSel == InitSel /\ [][NextSel]_vars

(***************************************************************************)
(* Claims about the FileDialog facade, checked under Spec                  *)
(***************************************************************************)
DisplayOps == {"display", "display_simple"}
NulOps == {"open", "set_file_style", "set_locales"}

C2_DisplayClosedNoop ==
    [][(lastOp' \in DisplayOps /\ nShow = "Closed") =>
          /\ lastRet' = "false"
          /\ nShow' = "Closed"
          /\ UNCHANGED <<nKey, nIsOk, nStyles, lastTerminal, nHandle>>
          /\ is_ok' = is_ok
          /\ is_opened' = is_opened
          /\ is_key_opened' = is_key_opened
          /\ was_opened_this_frame' = was_opened_this_frame
          /\ was_key_opened_this_frame' = was_key_opened_this_frame]_vars

C2_Witness ==
    /\ lastOp = "display" /\ lastRet = "false" /\ nShow = "Closed"
    /\ lastTerminal = "cancel"

\* C3: the dialog moves Closed -> Opened by open(), Opened -> Open by one
\* display(), Open -> Closed by a terminal user action or close(); the
\* was-opened-this-frame getters answer true exactly in Opened, the
\* is-opened getters exactly in Opened and Open.
C3_StateMachine ==
    [][/\ (lastOp' = "open" /\ lastRet' = "unit" /\ nShow = "Closed") => nShow' = "Opened"
       /\ (lastOp' \in DisplayOps /\ nShow = "Opened") => nShow' = "Open"
       /\ (lastOp' \in DisplayOps /\ nShow = "Open") =>
              nShow' = (IF lastRet' = "true" THEN "Closed" ELSE "Open")
       /\ lastOp' = "close" => nShow' = "Closed"
       /\ nShow' # nShow =>
              \/ nShow = "Closed" /\ nShow' = "Opened" /\ lastOp' = "open"
              \/ nShow = "Opened" /\ nShow' = "Open" /\ lastOp' \in DisplayOps
              \/ nShow = "Open" /\ nShow' = "Closed" /\ lastOp' \in DisplayOps
                    /\ lastRet' = "true"
              \/ nShow' = "Closed" /\ lastOp' = "close"
       /\ lastOp' = "was_opened_this_frame" => lastRet' = BoolStr(nShow' = "Opened")
       /\ lastOp' = "was_key_opened_this_frame" => lastRet' = BoolStr(nShow' = "Opened")
       /\ lastOp' = "is_opened" => lastRet' = BoolStr(nShow' \in {"Opened", "Open"})
       /\ lastOp' = "is_key_opened" => lastRet' = BoolStr(nShow' \in {"Opened", "Open"})
      ]_vars

C3_Witness ==
    /\ lastOp = "was_opened_this_frame" /\ lastRet = "false" /\ nShow = "Open"

\* C4: is_ok() is true iff the most recent terminal user action was OK,
\* and false as long as no terminal action has occurred.
C4_IsOk ==
    fd = "alive" =>
        /\ is_ok <=> lastTerminal = "ok"
        /\ lastOp = "is_ok" => lastRet = BoolStr(lastTerminal = "ok")

C4_Witness ==
    /\ lastOp = "is_ok" /\ lastRet = "true" /\ lastTerminal = "ok"

\* C5: a string argument with an embedded NUL byte is rejected before any
\* native call, and the rejection is an invalid-argument error value.
C5_NulRejectedByErrorValue ==
    (lastOp \in NulOps /\ lastNul) =>
        (lastCalls = <<>> /\ lastRet = "Err(InvalidArgument)")

(***************************************************************************)
(* Claims about Selection, checked under SpecSel                           *)
(***************************************************************************)
EntryName(i) == ptr_clone_to_string(selTable[i].fileName)
EntryPath(i) == ptr_clone_to_string(selTable[i].filePathName)
RawPathNonEmpty(i) == ~selTable[i].filePathName.null /\ Len(selTable[i].filePathName.bytes) > 0
RawNameNonEmpty(i) == ~selTable[i].fileName.null /\ Len(selTable[i].fileName.bytes) > 0
IsAscii(b) == \A k \in 1..Len(b) : b[k] < 128

\* the table indices whose full path is non-empty, and the k-th of them
PathIdx == {i \in 1..Len(selTable) : RawPathNonEmpty(i)}
KthPathIdx(k) == CHOOSE i \in PathIdx : Cardinality({j \in PathIdx : j < i}) = k - 1

\* C6: files() holds, in table order, exactly the entries whose full path
\* is non-empty (null and empty paths skipped, nothing duplicated or
\* reordered), each as the string copy of that path, so at most count() long.
C6_FilesOrdered ==
    selOp = "files" =>
        /\ Len(selRet) = Cardinality(PathIdx)
        /\ Len(selRet) <= count
        /\ \A k \in 1..Len(selRet) :
              /\ selRet[k] = EntryPath(KthPathIdx(k))
              /\ IsAscii(selTable[KthPathIdx(k)].filePathName.bytes) =>
                     selRet[k] = selTable[KthPathIdx(k)].filePathName.bytes

C6_Witness ==
    /\ selOp = "files" /\ Len(selTable) = 3 /\ Len(selRet) = 2
    /\ ~RawPathNonEmpty(2) /\ selRet[1] # selRet[2]

\* the entries files_map() keeps, and the last of them under a filename
KeptIdx == {i \in 1..Len(selTable) : RawNameNonEmpty(i) /\ RawPathNonEmpty(i)}
LastOf(S) == CHOOSE i \in S : \A j \in S : j <= i

\* C7 as stated: whenever two or more entries share a filename but differ
\* in full path, files_map() maps the filename to the full path of the
\* entry with the highest table index among them.
C7_LastWriteWinsAnyEntry ==
    selOp = "files_map" =>
        \A i \in 1..Len(selTable) :
            LET same == {j \in 1..Len(selTable) : EntryName(j) = EntryName(i)}
            IN  (\E j \in same : EntryPath(j) # EntryPath(i)) =>
                    /\ EntryName(i) \in DOMAIN selRet
                    /\ selRet[EntryName(i)] = EntryPath(LastOf(same))

\* C7 amended: among the entries whose filename and full path are both
\* non-empty, files_map() maps a shared filename to the full path of the
\* entry with the highest table index.
C7_LastWriteWinsKept ==
    selOp = "files_map" =>
        \A i \in KeptIdx :
            LET same == {j \in KeptIdx : EntryName(j) = EntryName(i)}
            IN  /\ EntryName(i) \in DOMAIN selRet
                /\ selRet[EntryName(i)] = EntryPath(LastOf(same))

C7_Witness ==
    /\ selOp = "files_map"
    /\ \E i, j \in KeptIdx :
          /\ i < j /\ EntryName(i) = EntryName(j) /\ EntryPath(i) # EntryPath(j)
          /\ selRet[EntryName(i)] = EntryPath(j)

\* C8: with count() = 0, is_empty() is true and files() is empty; and
\* is_empty() is true only when count() = 0.
C8_EmptySelection ==
    /\ selOp = "count" => selRet = Len(selTable)
    /\ selOp = "is_empty" => (selRet <=> count = 0)
    /\ (selOp = "files" /\ count = 0) => selRet = <<>>
    /\ count = 0 => (is_empty /\ files = <<>>)
    /\ is_empty => count = 0

C8_Witness ==
    /\ selOp = "files" /\ selRet = <<>> /\ count = 0 /\ is_empty

(***************************************************************************)
(* FileDialogFlags and FileStyleFlags (src/src/flags.rs)                   *)
(*                                                                         *)
(* A value of the 32-bit backing integer is written as the set of the      *)
(* positions of its 1 bits, so &, |, ! are intersection, union and the     *)
(* complement within 0..31.  The bit positions of the named constants are  *)
(* those of the native header that the sys crate mirrors.                  *)
(***************************************************************************)
FlagWidth == 32
FlagBits == 0..(FlagWidth - 1)

BitAnd(a, b) == a \cap b
BitOr(a, b) == a \cup b
BitNot(a) == FlagBits \ a

Some(v) == [some |-> TRUE, val |-> v]
None == [some |-> FALSE, val |-> {}]

FileDialogFlags_named ==
    [NONE |-> {}, CONFIRM_OVERWRITE |-> {0}, DONT_SHOW_HIDDEN_FILES |-> {1},
     DISABLE_CREATE_DIRECTORY_BUTTON |-> {2}, HIDE_COLUMN_TYPE |-> {3},
     HIDE_COLUMN_SIZE |-> {4}, HIDE_COLUMN_DATE |-> {5}, NO_DIALOG |-> {6},
     READONLY_FILENAME_FIELD |-> {7}, CASE_INSENSITIVE_EXTENSION_FILTERING |-> {8},
     MODAL |-> {9}, DISABLE_THUMBNAIL_MODE |-> {10}, DISABLE_PLACE_MODE |-> {11},
     DISABLE_QUICK_PATH_SELECTION |-> {12}, SHOW_DEVICES_BUTTON |-> {13},
     NATURAL_SORTING |-> {14}, DEFAULT |-> {0, 3, 9}]

FileStyleFlags_named ==
    [NONE |-> {}, BY_TYPE_FILE |-> {0}, BY_TYPE_DIR |-> {1}, BY_TYPE_LINK |-> {2},
     BY_EXTENSION |-> {3}, BY_FULL_NAME |-> {4}, BY_CONTAINED_IN_FULL_NAME |-> {5}]

\* the union of the named constants of each type
FileDialogFlags_named_bits ==
    UNION {FileDialogFlags_named[n] : n \in DOMAIN FileDialogFlags_named}
FileStyleFlags_named_bits ==
    UNION {FileStyleFlags_named[n] : n \in DOMAIN FileStyleFlags_named}

FileDialogFlags_empty == {}
FileDialogFlags_all == BitNot({})
FileDialogFlags_bits(self) == self
\* a from_bits that refuses raw values with a bit no named flag uses
FileDialogFlags_from_bits_strict(bits) ==
    IF bits \subseteq FileDialogFlags_named_bits THEN Some(bits) ELSE None
FileDialogFlags_from_bits(bits) == Some(bits)
FileDialogFlags_from_bits_truncate(bits) == bits
FileDialogFlags_is_empty(self) == self = {}
FileDialogFlags_contains(self, other) == BitAnd(self, other) = other
FileDialogFlags_intersection(self, other) == BitAnd(self, other)
FileDialogFlags_union(self, other) == BitOr(self, other)
FileDialogFlags_difference(self, other) == BitAnd(self, BitNot(other))
\* a complement that drops the bits no named flag uses
FileDialogFlags_complement_truncating(self) ==
    BitAnd(BitNot(self), FileDialogFlags_named_bits)
FileDialogFlags_complement(self) == BitNot(self)

FileStyleFlags_empty == {}
FileStyleFlags_all == BitNot({})
FileStyleFlags_bits(self) == self
FileStyleFlags_from_bits(bits) == Some(bits)
FileStyleFlags_from_bits_truncate(bits) == bits
FileStyleFlags_is_empty(self) == self = {}
FileStyleFlags_contains(self, other) == BitAnd(self, other) = other
FileStyleFlags_intersection(self, other) == BitAnd(self, other)
FileStyleFlags_union(self, other) == BitOr(self, other)
FileStyleFlags_difference(self, other) == BitAnd(self, BitNot(other))
FileStyleFlags_complement(self) == BitNot(self)

FlagTypes == {"FileDialogFlags", "FileStyleFlags"}
IsDlg == fTy = "FileDialogFlags"
NamedBits == IF IsDlg THEN FileDialogFlags_named_bits ELSE FileStyleFlags_named_bits

\* raw values tried: every combination of a few named and unnamed bits, and !0
ProbeBits == {0, 3, 9, 15, 31}
RawValues == (SUBSET ProbeBits) \cup {FlagBits}

f_contains(a, b) == IF IsDlg THEN FileDialogFlags_contains(a, b) ELSE FileStyleFlags_contains(a, b)
f_is_empty(a) == IF IsDlg THEN FileDialogFlags_is_empty(a) ELSE FileStyleFlags_is_empty(a)
f_complement(a) == IF IsDlg THEN FileDialogFlags_complement(a) ELSE FileStyleFlags_complement(a)
f_bits(a) == IF IsDlg THEN FileDialogFlags_bits(a) ELSE FileStyleFlags_bits(a)
f_from_bits(x) == IF IsDlg THEN FileDialogFlags_from_bits(x) ELSE FileStyleFlags_from_bits(x)

FlagDone(op, ret) ==
    /\ fOp' = op /\ fRet' = ret
    /\ UNCHANGED <<fTy, fA, fB, dlgVars, selVars>>

Flags_union ==
    FlagDone("union", IF IsDlg THEN FileDialogFlags_union(fA, fB)
                      ELSE FileStyleFlags_union(fA, fB))
Flags_intersection ==
    FlagDone("intersection", IF IsDlg THEN FileDialogFlags_intersection(fA, fB)
                             ELSE FileStyleFlags_intersection(fA, fB))
Flags_difference ==
    FlagDone("difference", IF IsDlg THEN FileDialogFlags_difference(fA, fB)
                           ELSE FileStyleFlags_difference(fA, fB))
Flags_complement == FlagDone("complement", f_complement(fA))
Flags_contains == FlagDone("contains", f_contains(fA, fB))
Flags_is_empty == FlagDone("is_empty", f_is_empty(fA))
Flags_bits == FlagDone("bits", f_bits(fA))
Flags_from_bits ==
    FlagDone("from_bits", IF IsDlg THEN FileDialogFlags_from_bits(fA)
                          ELSE FileStyleFlags_from_bits(fA))
Flags_from_bits_truncate ==
    FlagDone("from_bits_truncate", IF IsDlg THEN FileDialogFlags_from_bits_truncate(fA)
                                   ELSE FileStyleFlags_from_bits_truncate(fA))

InitFlags ==
    /\ fTy \in FlagTypes
    /\ fA \in RawValues /\ fB \in RawValues
    /\ fOp = "none" /\ fRet = {}
    /\ DlgIdle /\ SelIdle

NextFlags ==
    \/ Flags_union
    \/ Flags_intersection
    \/ Flags_difference
    \/ Flags_complement
    \/ Flags_contains
    \/ Flags_is_empty
    \/ Flags_bits
    \/ Flags_from_bits
    \/ Flags_from_bits_truncate

SpecFlags == InitFlags /\ [][NextFlags]_vars

(***************************************************************************)
(* Claims about the flag types, checked under SpecFlags                    *)
(***************************************************************************)
\* C9: a.union(b) contains a and b; a and b each contain a.intersection(b);
\* a.complement().complement() == a; a.difference(a) is empty - for every
\* raw bit pattern of both flag types.
C9_FlagAlgebra ==
    /\ fOp = "union" => (f_contains(fRet, fA) /\ f_contains(fRet, fB))
    /\ fOp = "intersection" => (f_contains(fA, fRet) /\ f_contains(fB, fRet))
    /\ fOp = "complement" => f_complement(fRet) = fA
    /\ (fOp = "difference" /\ fB = fA) => f_is_empty(fRet)

C9_Witness ==
    /\ fOp = "complement" /\ fTy = "FileStyleFlags" /\ fA = {0, 15}
    /\ 31 \in fRet /\ 15 \notin fRet

\* C10: from_bits_truncate(x) has no bit set outside the union of the
\* named flag constants of its type.
C10_TruncateWithinNamed ==
    fOp = "from_bits_truncate" => fRet \subseteq NamedBits


\* C11: for every raw value x within the named bits, from_bits(x) is Some
\* and from_bits(x).bits() == x; and for every flag value f (any bit
\* pattern), from_bits(f.bits()) == Some(f) - for both flag types.
C11_FromBitsRoundTrip ==
    /\ (fOp = "from_bits" /\ fA \subseteq NamedBits) =>
          (fRet.some /\ f_bits(fRet.val) = fA)
    /\ fOp = "bits" => f_from_bits(fRet) = Some(fA)

C11_Witness ==
    /\ fOp = "bits" /\ fTy = "FileDialogFlags" /\ fA = {0, 3, 9, 15}
    /\ f_from_bits(fRet) = Some({0, 3, 9, 15})


\* C14: files_map() has an entry only for table entries whose filename and
\* full path are both non-empty, so every key is non-empty, every value is
\* an element of files(), and files_map().len() <= files().len() <= count().
C14_MapWithinFiles ==
    selOp = "files_map" =>
        /\ DOMAIN selRet =
              {EntryName(i) : i \in {j \in 1..Len(selTable) :
                                       RawNameNonEmpty(j) /\ RawPathNonEmpty(j)}}
        /\ \A k \in DOMAIN selRet :
              /\ k # <<>>
              /\ \E n \in 1..Len(files) : files[n] = selRet[k]
        /\ Cardinality(DOMAIN selRet) <= Len(files)
        /\ Len(files) <= count

C14_Witness ==
    /\ selOp = "files_map"
    /\ \E i \in 1..Len(selTable) : ~RawNameNonEmpty(i) /\ RawPathNonEmpty(i)
    /\ 0 < Cardinality(DOMAIN selRet)
    /\ Cardinality(DOMAIN selRet) < Len(files)
    /\ Len(files) < count

(***************************************************************************)
(* Claims about native buffers, checked under Spec                         *)
(***************************************************************************)
GetterOps == {g.op : g \in StringGetters}
FreeCalls == {i \in DOMAIN lastCalls : lastCalls[i].fn = "igMemFree"}

\* C13: every native buffer is released exactly once and never read after
\* release: no read or free ever touches a buffer that is not live; a getter
\* that received a string leaves it freed by one igMemFree, a getter that
\* received null frees nothing; files() and files_map() free nothing; the
\* content of a Selection is live exactly while the Selection is, and none
\* is live once the Context's handle is destroyed.
C13_BuffersReleasedOnce ==
    /\ ~heapFault
    /\ heap[StrBuf] # "live"
    /\ (lastOp \in GetterOps /\ lastRet = "string") =>
          (heap[StrBuf] = "freed" /\ Cardinality(FreeCalls) = 1)
    /\ (lastOp \in GetterOps /\ lastRet = "empty") => FreeCalls = {}
    /\ lastOp \in SelectionReaders => lastCalls = <<>>
    /\ \A b \in 1..MaxSel : heap[b] = "live" <=> b <= selLive
    /\ nHandle = "destroyed" => \A b \in Buffers : heap[b] # "live"

C13_Witness ==
    /\ nHandle = "destroyed" /\ destroyCalls = 1
    /\ heap[StrBuf] = "freed" /\ heap[1] = "freed"

(***************************************************************************)
(* Claims about display's arguments, checked under SpecDisplay             *)
(***************************************************************************)
Forwarded == lastCalls[1].args
AxisOk(min, max, out) ==
    /\ out \in {max, min}
    /\ f32_le(min, max) => out = max
    /\ f32_le(max, min) => out = min
BothAxesDegenerate(a) == f32_le(a.max.x, a.min.x) /\ f32_le(a.max.y, a.min.y)
FlagsOk ==
    /\ Forwarded.flags =
           (IF BothAxesDegenerate(lastArgs) THEN lastArgs.flags \cup {"NO_RESIZE"}
            ELSE lastArgs.flags)
    /\ lastOp = "display_simple" => Forwarded.flags = {"NO_COLLAPSE"}

\* C12 as stated: for every min_size and max_size the forwarded maximum is
\* the component-wise maximum (>= min_size on both axes, equal to max_size
\* where that already is), the minimum is forwarded unchanged, NO_RESIZE is
\* added exactly when max <= min on both axes, and display_simple never
\* adds it.
C12_DisplayForwardingAnySize ==
    lastOp \in DisplayOps =>
        /\ Forwarded.min = lastArgs.min
        /\ AxisOk(lastArgs.min.x, lastArgs.max.x, Forwarded.max.x)
        /\ AxisOk(lastArgs.min.y, lastArgs.max.y, Forwarded.max.y)
        /\ f32_le(lastArgs.min.x, Forwarded.max.x)
        /\ f32_le(lastArgs.min.y, Forwarded.max.y)
        /\ FlagsOk

\* C12 amended: the same, with the forwarded maximum >= min_size on every
\* axis whose min_size component is not NaN; where one of the two components
\* of an axis is NaN the forwarded maximum is the other one (f32::max), and
\* no comparison with NaN is true.
C12_DisplayForwarding ==
    lastOp \in DisplayOps =>
        /\ Forwarded.min = lastArgs.min
        /\ AxisOk(lastArgs.min.x, lastArgs.max.x, Forwarded.max.x)
        /\ AxisOk(lastArgs.min.y, lastArgs.max.y, Forwarded.max.y)
        /\ lastArgs.min.x # NaN => f32_le(lastArgs.min.x, Forwarded.max.x)
        /\ lastArgs.min.y # NaN => f32_le(lastArgs.min.y, Forwarded.max.y)
        /\ lastArgs.min.x = NaN => Forwarded.max.x = lastArgs.max.x
        /\ lastArgs.min.y = NaN => Forwarded.max.y = lastArgs.max.y
        /\ lastArgs.max.x = NaN => Forwarded.max.x = lastArgs.min.x
        /\ lastArgs.max.y = NaN => Forwarded.max.y = lastArgs.min.y
        /\ FlagsOk

C12_Witness ==
    /\ lastOp = "display"
    /\ lastArgs = [flags |-> {"NO_COLLAPSE"}, min |-> Vec2(1, 1), max |-> Vec2(0, 1)]
    /\ Forwarded = [flags |-> {"NO_COLLAPSE", "NO_RESIZE"}, min |-> Vec2(1, 1),
                     max |-> Vec2(1, 1)]

====
